---- MODULE Spec2Model ----
(***************************************************************************)
(* Listing reconciliation of alphavantage_merge.py: an ordered sequence of *)
(* listing_status snapshots is folded into one merged table and a conflict *)
(* log.  Field values are strings, modelled as tuples of one-character     *)
(* strings so that the name normalisation and the SequenceMatcher ratio    *)
(* are computed character by character as the code computes them.          *)
(***************************************************************************)
EXTENDS Integers, Sequences, FiniteSets, TLC

VARIABLES files, fi, ri, merged, conflicts, pc, outputs

\* The ticker load of alphavantage_dbsetup.py: the rows csv.reader yields, the
\* position of the row loop, the ticker table as the open transaction sees it
\* and as last committed, the state of the transaction, the two counters and
\* the position of the call.
VARIABLES csv_rows, li, ticker, committed, txn, inserted_count, skipped_count, lpc

loadvars == <<csv_rows, li, ticker, committed, txn, inserted_count, skipped_count, lpc>>

vars == <<files, fi, ri, merged, conflicts, pc, outputs, loadvars>>

\* ------------------------------------------------------------------ bounds
\* At most MaxFiles snapshot files in the input directory.
MaxFiles == 3
\* At most MaxTotalRows rows in all snapshot files together.
MaxTotalRows == 3
\* At most MaxCsvRows rows after the header line in the CSV file of the load.
MaxCsvRows == 3

\* ------------------------------------------------------------------ values
\* float('nan'), what pd.read_csv yields for an empty/missing field.
NaN == <<"NaN">>
\* Python's None, what json_safe puts in place of a NaN.
None == <<"None">>

\* The columns of a listing_status CSV, in file order (a.index of row_diffs).
Columns == {"symbol", "name", "exchange", "assetType", "ipoDate", "delistingDate", "status"}

OUTPUT_FILE == "merged_listings.csv"
CONFLICT_LOG == "conflicts.json"

\* pd.isna(v)
IsNa(v) == v = NaN

\* str(v): a string is itself, a NaN prints as "nan".
Str(v) == IF IsNa(v) THEN <<"n", "a", "n">> ELSE v

LowerCase == <<"a","b","c","d","e","f","g","h","i","j","k","l","m",
               "n","o","p","q","r","s","t","u","v","w","x","y","z">>
UpperCase == <<"A","B","C","D","E","F","G","H","I","J","K","L","M",
               "N","O","P","Q","R","S","T","U","V","W","X","Y","Z">>
Digits == {"0","1","2","3","4","5","6","7","8","9"}

\* str.upper() on one (ASCII) character.
UpperChar(c) ==
    IF \E i \in 1..26 : LowerCase[i] = c
    THEN UpperCase[CHOOSE i \in 1..26 : LowerCase[i] = c]
    ELSE c

\* The character class [A-Z0-9 ] of the first re.sub.
KeptChars == {UpperCase[i] : i \in 1..26} \cup Digits \cup {" "}

\* re.sub(r"\s+", " ", s): every run of blanks becomes one blank.  After the
\* first re.sub the only whitespace left is the blank itself.
RECURSIVE CollapseBlanks(_)
CollapseBlanks(s) ==
    IF Len(s) <= 1 THEN s
    ELSE IF s[1] = " " /\ s[2] = " " THEN CollapseBlanks(Tail(s))
    ELSE <<s[1]>> \o CollapseBlanks(Tail(s))

\* str.strip() of a string whose blanks are already collapsed.
RECURSIVE Strip(_)
Strip(s) ==
    IF s = <<>> THEN s
    ELSE IF s[1] = " " THEN Strip(Tail(s))
    ELSE IF s[Len(s)] = " " THEN Strip(SubSeq(s, 1, Len(s) - 1))
    ELSE s

normalize_name(name) ==
    IF IsNa(name) THEN <<>>
    ELSE LET up == [i \in 1..Len(Str(name)) |-> UpperChar(Str(name)[i])]
             kept == SelectSeq(up, LAMBDA c : c \in KeptChars)
         IN  Strip(CollapseBlanks(kept))

\* ------------------------------------------------- difflib.SequenceMatcher
\* Positions are Python's: 0-based, hi exclusive; a[i+1] is Python's a[i].
\* No junk: isjunk is None, and autojunk only acts on strings of 200 or more
\* characters.
Min(x, y) == IF x <= y THEN x ELSE y

\* The length of the longest common run that starts at a[i] and b[j].
RECURSIVE RunLength(_, _, _, _, _, _)
RunLength(a, b, i, j, ahi, bhi) ==
    IF i < ahi /\ j < bhi /\ a[i + 1] = b[j + 1]
    THEN 1 + RunLength(a, b, i + 1, j + 1, ahi, bhi)
    ELSE 0

\* The blocks a[i:i+k] == b[j:j+k], k >= 1, inside a[alo:ahi] and b[blo:bhi]
\* that cannot be extended to the right: one for every pair of equal characters.
EqualBlocks(a, b, alo, ahi, blo, bhi) ==
    {<<p[1], p[2], RunLength(a, b, p[1], p[2], ahi, bhi)>> :
        p \in {q \in (alo..(ahi - 1)) \X (blo..(bhi - 1)) : a[q[1] + 1] = b[q[2] + 1]}}

\* find_longest_match without junk: the longest block, of those the one that
\* starts earliest in a, of those the one that starts earliest in b.
find_longest_match(a, b, alo, ahi, blo, bhi) ==
    LET blocks == EqualBlocks(a, b, alo, ahi, blo, bhi)
    IN  IF blocks = {} THEN <<alo, blo, 0>>
        ELSE CHOOSE t \in blocks : \A u \in blocks :
                \/ t[3] > u[3]
                \/ t[3] = u[3] /\ t[1] < u[1]
                \/ t[3] = u[3] /\ t[1] = u[1] /\ t[2] <= u[2]

\* Sum of the sizes of get_matching_blocks(): the longest block, then the
\* same to its left and to its right.
RECURSIVE MatchingSize(_, _, _, _, _, _)
MatchingSize(a, b, alo, ahi, blo, bhi) ==
    LET m == find_longest_match(a, b, alo, ahi, blo, bhi)
    IN  IF m[3] = 0 THEN 0
        ELSE m[3]
             + (IF alo < m[1] /\ blo < m[2]
                THEN MatchingSize(a, b, alo, m[1], blo, m[2]) ELSE 0)
             + (IF m[1] + m[3] < ahi /\ m[2] + m[3] < bhi
                THEN MatchingSize(a, b, m[1] + m[3], ahi, m[2] + m[3], bhi) ELSE 0)

\* A name_similarity that tests "not a or not b" first: two empty strings
\* get 0.0 as well.
NameSimilarityEitherEmptyFirst(a, b) ==
    IF a = <<>> \/ b = <<>> THEN <<0, 1>>
    ELSE <<2 * MatchingSize(a, b, 0, Len(a), 0, Len(b)), Len(a) + Len(b)>>

\* name_similarity(a, b) as the exact fraction <<numerator, denominator>>:
\* 1.0 for two empty strings, 0.0 for one, else 2.0 * matches / (len(a) + len(b)).
name_similarity(a, b) ==
    IF a = <<>> /\ b = <<>> THEN <<1, 1>>
    ELSE IF a = <<>> \/ b = <<>> THEN <<0, 1>>
    ELSE <<2 * MatchingSize(a, b, 0, Len(a), 0, Len(b)), Len(a) + Len(b)>>

\* The threshold 0.90 of the name-similarity rule, in hundredths.
SimilarityThreshold == 90

\* A comparison against 0.60 in place of 0.90.
SimilarEnoughLoose(a, b) ==
    LET r == name_similarity(a, b)
    IN  100 * r[1] >= 60 * r[2]

\* name_similarity(...) >= 0.90
SimilarEnough(a, b) ==
    LET r == name_similarity(a, b)
    IN  100 * r[1] >= SimilarityThreshold * r[2]

\* -------------------------------------------------------------- row_diffs
\* A row_diffs that skips a column when either value is NaN ("or" for "and").
RowDiffsSkippingAnyMissing(a, b) ==
    [col \in {c \in Columns : /\ ~(IsNa(a[c]) \/ IsNa(b[c]))
                              /\ Str(a[c]) # Str(b[c])} |-> <<a[col], b[col]>>]

\* row_diffs(a, b): for every column, skipped when both values are NaN,
\* recorded as [av, bv] when the two values print differently.
row_diffs(a, b) ==
    [col \in {c \in Columns : /\ ~(IsNa(a[c]) /\ IsNa(b[c]))
                              /\ Str(a[c]) # Str(b[c])} |-> <<a[col], b[col]>>]

\* json_safe on one value: a float NaN becomes None.
JsonSafeValue(v) == IF IsNa(v) THEN None ELSE v

\* json_safe on a row turned into a dict.
JsonSafeRow(r) == [c \in Columns |-> JsonSafeValue(r[c])]

\* json_safe on the dict row_diffs returned: each [av, bv] list element-wise.
JsonSafeDiffs(d) == [c \in DOMAIN d |-> <<JsonSafeValue(d[c][1]), JsonSafeValue(d[c][2])>>]

\* ------------------------------------------------------------ merge loop
\* Series == scalar, element-wise: a NaN equals nothing, not even a NaN.
ValueEq(x, y) == ~IsNa(x) /\ ~IsNa(y) /\ x = y

\* str.upper() on a whole string.
UpperString(v) == [i \in 1..Len(v) |-> UpperChar(v[i])]

\* A mask that compares the symbols without regard to case.
MaskRowIgnoringCase(existing, incoming) ==
    /\ ~IsNa(existing["symbol"]) /\ ~IsNa(incoming["symbol"])
    /\ UpperString(existing["symbol"]) = UpperString(incoming["symbol"])
    /\ ValueEq(existing["exchange"], incoming["exchange"])

\* A mask that compares the symbols only.
MaskRowSymbolOnly(existing, incoming) ==
    ValueEq(existing["symbol"], incoming["symbol"])

\* One element of mask: symbol and exchange of a merged row both equal the
\* incoming row's.
MaskRow(existing, incoming) ==
    /\ ValueEq(existing["symbol"], incoming["symbol"])
    /\ ValueEq(existing["exchange"], incoming["exchange"])

\* merged[mask]: the candidate rows, in table order.
Candidates(m, incoming) == SelectSeq(m, LAMBDA existing : MaskRow(existing, incoming))

\* An inner loop body without the name-similarity rule.
RowMatchesWithoutNameRule(existing, incoming) ==
    LET diffs == row_diffs(existing, incoming)
    IN  IF DOMAIN diffs = {} THEN TRUE
        ELSE DOMAIN diffs = {"ipoDate"}

\* An inner loop body whose name-similarity rule applies only when nothing
\* but the name and the IPO date differ.
RowMatchesNameRuleOnNameDiffOnly(existing, incoming) ==
    LET diffs == row_diffs(existing, incoming)
    IN  IF DOMAIN diffs = {} THEN TRUE
        ELSE IF DOMAIN diffs = {"ipoDate"} THEN TRUE
        ELSE /\ DOMAIN diffs \subseteq {"name", "ipoDate"}
             /\ SimilarEnough(normalize_name(existing["name"]),
                              normalize_name(incoming["name"]))

\* The three rules applied to one candidate (the body of the inner loop).
RowMatches(existing, incoming) ==
    LET diffs == row_diffs(existing, incoming)
    IN  IF DOMAIN diffs = {} THEN TRUE
        ELSE IF DOMAIN diffs = {"ipoDate"} THEN TRUE
        ELSE SimilarEnough(normalize_name(existing["name"]),
                           normalize_name(incoming["name"]))

\* An inner loop that looks at the first candidate only.
ScanFirstCandidateOnly(cands, incoming) ==
    cands # <<>> /\ RowMatches(Head(cands), incoming)

\* An inner loop without the break, matched assigned at every candidate: the
\* last candidate decides.
ScanWithoutBreak(cands, incoming) ==
    cands # <<>> /\ RowMatches(cands[Len(cands)], incoming)

\* The inner loop: candidates in table order, break at the first match.
RECURSIVE ScanCandidates(_, _)
ScanCandidates(cands, incoming) ==
    IF cands = <<>> THEN FALSE
    ELSE IF RowMatches(Head(cands), incoming) THEN TRUE
    ELSE ScanCandidates(Tail(cands), incoming)

\* os.path.basename(f) of the i-th file of the sorted glob.
FileName(i) == <<"listing_status", i>>

\* A record whose diffs keep only the fields present on both sides.
ConflictRecordDiffsBothPresent(m, incoming, i) ==
    LET diffs == row_diffs(Candidates(m, incoming)[1], incoming)
        kept == {c \in DOMAIN diffs : ~IsNa(diffs[c][1]) /\ ~IsNa(diffs[c][2])}
    IN  [symbol |-> JsonSafeValue(incoming["symbol"]),
         exchange |-> JsonSafeValue(incoming["exchange"]),
         source_file |-> FileName(i),
         diffs |-> JsonSafeDiffs([c \in kept |-> diffs[c]]),
         existing_rows |-> [k \in 1..Len(Candidates(m, incoming)) |->
                                JsonSafeRow(Candidates(m, incoming)[k])],
         incoming_row |-> JsonSafeRow(incoming)]

\* A record that lists the first candidate alone as existing_rows.
ConflictRecordFirstCandidateOnly(m, incoming, i) ==
    [symbol |-> JsonSafeValue(incoming["symbol"]),
     exchange |-> JsonSafeValue(incoming["exchange"]),
     source_file |-> FileName(i),
     diffs |-> JsonSafeDiffs(row_diffs(Candidates(m, incoming)[1], incoming)),
     existing_rows |-> <<JsonSafeRow(Candidates(m, incoming)[1])>>,
     incoming_row |-> JsonSafeRow(incoming)]

\* The dict appended to conflicts, after json_safe.
ConflictRecord(m, incoming, i) ==
    [symbol |-> JsonSafeValue(incoming["symbol"]),
     exchange |-> JsonSafeValue(incoming["exchange"]),
     source_file |-> FileName(i),
     diffs |-> JsonSafeDiffs(row_diffs(Candidates(m, incoming)[1], incoming)),
     existing_rows |-> [k \in 1..Len(Candidates(m, incoming)) |->
                            JsonSafeRow(Candidates(m, incoming)[k])],
     incoming_row |-> JsonSafeRow(incoming)]

\* A concat with its two frames swapped.
ConcatRowFirst(m, incoming) == <<incoming>> \o m

\* pd.concat([merged, incoming.to_frame().T], ignore_index=True)
ConcatRow(m, incoming) == Append(m, incoming)

\* A seed that compares: a row is left out when an earlier row of the seed
\* carries its key.
RECURSIVE SeedCopyComparing(_)
SeedCopyComparing(rows) ==
    IF rows = <<>> THEN <<>>
    ELSE LET front == SeedCopyComparing(SubSeq(rows, 1, Len(rows) - 1))
             last == rows[Len(rows)]
         IN  IF \E k \in DOMAIN front : MaskRow(front[k], last)
             THEN front
             ELSE Append(front, last)

\* merged = df.copy()
SeedCopy(rows) == rows

\* df, the snapshot being processed, and the row iterrows() is at.
df == files[fi].rows
incoming_row == df[ri]

\* ------------------------------------------------- the loop as a function
\* One pass of the row loop body on the table m and the log c.
ProcessRow(st, incoming, i) ==
    IF Candidates(st.merged, incoming) = <<>>
    THEN [st EXCEPT !.merged = ConcatRow(st.merged, incoming)]
    ELSE IF ScanCandidates(Candidates(st.merged, incoming), incoming)
    THEN st
    ELSE [st EXCEPT !.conflicts =
                Append(st.conflicts, ConflictRecord(st.merged, incoming, i))]

\* for _, incoming in df.iterrows(): ...
RECURSIVE ProcessRows(_, _, _)
ProcessRows(st, rows, i) ==
    IF rows = <<>> THEN st
    ELSE ProcessRows(ProcessRow(st, Head(rows), i), Tail(rows), i)

\* One pass of the file loop body on the i-th file f.
ProcessFile(st, f, i) ==
    IF ~f.ok THEN [st EXCEPT !.pc = "crashed"]
    ELSE IF st.merged = <<>> THEN [st EXCEPT !.merged = SeedCopy(f.rows)]
    ELSE ProcessRows(st, f.rows, i)

\* for f in files: ..., from the i-th file on; an exception ends the loop.
RECURSIVE ProcessFiles(_, _, _)
ProcessFiles(st, fs, i) ==
    IF st.pc = "crashed" THEN st
    ELSE IF i > Len(fs) THEN [st EXCEPT !.pc = "done"]
    ELSE ProcessFiles(ProcessFile(st, fs[i], i), fs, i + 1)

\* The whole script on the files fs: the final merged, conflicts and pc.
Reconcile(fs) ==
    ProcessFiles([merged |-> <<>>, conflicts |-> <<>>, pc |-> "files"], fs, 1)

\* ---------------------------------------------------------------- actions
\* A read wrapped in try/except: the file that cannot be read is passed over.
ReadFailsSkipsFile ==
    /\ pc = "files"
    /\ fi <= Len(files)
    /\ ~files[fi].ok
    /\ fi' = fi + 1
    /\ UNCHANGED <<loadvars, files, ri, merged, conflicts, pc, outputs>>

\* pd.read_csv(f) raises: the script ends with a traceback, nothing is saved.
ReadFails ==
    /\ pc = "files"
    /\ fi <= Len(files)
    /\ ~files[fi].ok
    /\ pc' = "crashed"
    /\ UNCHANGED <<loadvars, files, fi, ri, merged, conflicts, outputs>>

\* The file is read and merged is empty: the snapshot is copied whole.
Seed ==
    /\ pc = "files"
    /\ fi <= Len(files)
    /\ files[fi].ok
    /\ merged = <<>>
    /\ merged' = SeedCopy(df)
    /\ fi' = fi + 1
    /\ UNCHANGED <<loadvars, files, ri, conflicts, pc, outputs>>

\* The file is read and merged is not empty: iterrows() starts.
BeginRows ==
    /\ pc = "files"
    /\ fi <= Len(files)
    /\ files[fi].ok
    /\ merged # <<>>
    /\ pc' = "rows"
    /\ ri' = 1
    /\ UNCHANGED <<loadvars, files, fi, merged, conflicts, outputs>>

\* A row loop whose mask is computed against the merged table as it was when
\* the snapshot started: rows appended from the same snapshot are not seen.
NewSecurityAgainstSnapshotStart ==
    /\ pc = "rows"
    /\ ri <= Len(df)
    /\ Candidates(Reconcile(SubSeq(files, 1, fi - 1)).merged, incoming_row) = <<>>
    /\ merged' = ConcatRow(merged, incoming_row)
    /\ ri' = ri + 1
    /\ UNCHANGED <<loadvars, files, fi, conflicts, pc, outputs>>

\* not mask.any(): the incoming row is appended.
NewSecurity ==
    /\ pc = "rows"
    /\ ri <= Len(df)
    /\ Candidates(merged, incoming_row) = <<>>
    /\ merged' = ConcatRow(merged, incoming_row)
    /\ ri' = ri + 1
    /\ UNCHANGED <<loadvars, files, fi, conflicts, pc, outputs>>

\* A matched branch that drops the conflicts logged earlier for the same key.
MatchedDropsConflicts ==
    /\ pc = "rows"
    /\ ri <= Len(df)
    /\ Candidates(merged, incoming_row) # <<>>
    /\ ScanCandidates(Candidates(merged, incoming_row), incoming_row)
    /\ conflicts' = SelectSeq(conflicts, LAMBDA c :
                        ~(/\ c["symbol"] = JsonSafeValue(incoming_row["symbol"])
                          /\ c["exchange"] = JsonSafeValue(incoming_row["exchange"])))
    /\ ri' = ri + 1
    /\ UNCHANGED <<loadvars, files, fi, merged, pc, outputs>>

\* A matched branch that appends the incoming row all the same.
MatchedAlsoInserts ==
    /\ pc = "rows"
    /\ ri <= Len(df)
    /\ Candidates(merged, incoming_row) # <<>>
    /\ ScanCandidates(Candidates(merged, incoming_row), incoming_row)
    /\ merged' = ConcatRow(merged, incoming_row)
    /\ ri' = ri + 1
    /\ UNCHANGED <<loadvars, files, fi, conflicts, pc, outputs>>

\* A matched branch that updates: the first candidate that matches takes the
\* incoming row's values.
MatchedUpdatesExisting ==
    /\ pc = "rows"
    /\ ri <= Len(df)
    /\ Candidates(merged, incoming_row) # <<>>
    /\ ScanCandidates(Candidates(merged, incoming_row), incoming_row)
    /\ LET hit == CHOOSE k \in DOMAIN merged :
                    /\ MaskRow(merged[k], incoming_row)
                    /\ RowMatches(merged[k], incoming_row)
                    /\ \A j \in 1..(k - 1) :
                          ~(MaskRow(merged[j], incoming_row) /\ RowMatches(merged[j], incoming_row))
       IN  merged' = [merged EXCEPT ![hit] = incoming_row]
    /\ ri' = ri + 1
    /\ UNCHANGED <<loadvars, files, fi, conflicts, pc, outputs>>

\* Some candidate matched: nothing is recorded.
Matched ==
    /\ pc = "rows"
    /\ ri <= Len(df)
    /\ Candidates(merged, incoming_row) # <<>>
    /\ ScanCandidates(Candidates(merged, incoming_row), incoming_row)
    /\ ri' = ri + 1
    /\ UNCHANGED <<loadvars, files, fi, merged, conflicts, pc, outputs>>

\* An unmatched branch that logs the conflict and inserts the row as well.
ConflictAlsoInserts ==
    /\ pc = "rows"
    /\ ri <= Len(df)
    /\ Candidates(merged, incoming_row) # <<>>
    /\ ~ScanCandidates(Candidates(merged, incoming_row), incoming_row)
    /\ conflicts' = Append(conflicts, ConflictRecord(merged, incoming_row, fi))
    /\ merged' = ConcatRow(merged, incoming_row)
    /\ ri' = ri + 1
    /\ UNCHANGED <<loadvars, files, fi, pc, outputs>>

\* An unmatched branch that takes the candidates from an unordered collection:
\* any of them may come first, as the diff basis and in existing_rows.
ConflictUnorderedCandidates ==
    /\ pc = "rows"
    /\ ri <= Len(df)
    /\ Candidates(merged, incoming_row) # <<>>
    /\ ~ScanCandidates(Candidates(merged, incoming_row), incoming_row)
    /\ \E k \in DOMAIN merged :
          /\ MaskRow(merged[k], incoming_row)
          /\ conflicts' = Append(conflicts,
                ConflictRecord(<<merged[k]>> \o merged, incoming_row, fi))
    /\ ri' = ri + 1
    /\ UNCHANGED <<loadvars, files, fi, merged, pc, outputs>>

\* An unmatched branch that logs a row once: a row already in the log is
\* passed over.
ConflictOncePerRow ==
    /\ pc = "rows"
    /\ ri <= Len(df)
    /\ Candidates(merged, incoming_row) # <<>>
    /\ ~ScanCandidates(Candidates(merged, incoming_row), incoming_row)
    /\ conflicts' =
          IF \E k \in DOMAIN conflicts :
                conflicts[k]["incoming_row"] = JsonSafeRow(incoming_row)
          THEN conflicts
          ELSE Append(conflicts, ConflictRecord(merged, incoming_row, fi))
    /\ ri' = ri + 1
    /\ UNCHANGED <<loadvars, files, fi, merged, pc, outputs>>

\* No candidate matched: a conflict is logged, the row is not inserted.
Conflict ==
    /\ pc = "rows"
    /\ ri <= Len(df)
    /\ Candidates(merged, incoming_row) # <<>>
    /\ ~ScanCandidates(Candidates(merged, incoming_row), incoming_row)
    /\ conflicts' = Append(conflicts, ConflictRecord(merged, incoming_row, fi))
    /\ ri' = ri + 1
    /\ UNCHANGED <<loadvars, files, fi, merged, pc, outputs>>

\* iterrows() is exhausted: on to the next file.
EndRows ==
    /\ pc = "rows"
    /\ ri > Len(df)
    /\ pc' = "files"
    /\ fi' = fi + 1
    /\ ri' = 0
    /\ UNCHANGED <<loadvars, files, merged, conflicts, outputs>>

\* All files are processed: merged.to_csv(...) and json.dump(conflicts, ...).
SaveOutputs ==
    /\ pc = "files"
    /\ fi > Len(files)
    /\ outputs' = {OUTPUT_FILE, CONFLICT_LOG}
    /\ pc' = "done"
    /\ UNCHANGED <<loadvars, files, fi, ri, merged, conflicts>>

Next ==
    \/ ReadFails
    \/ Seed
    \/ BeginRows
    \/ NewSecurity
    \/ Matched
    \/ Conflict
    \/ EndRows
    \/ SaveOutputs

\* load_tickers_from_csv is not called in a run of the merge script.
LoadIdle ==
    /\ csv_rows = <<>>
    /\ li = 1
    /\ ticker = {}
    /\ committed = {}
    /\ txn = "idle"
    /\ inserted_count = 0
    /\ skipped_count = 0
    /\ lpc = "idle"

\* ----------------------------------------------------------------- inputs
\* What pd.read_csv makes of a file it cannot parse: it raises.
Unreadable == [ok |-> FALSE, rows |-> <<>>]

\* The files cut out of the rows flat: file i holds the rows after ends[i-1]
\* up to ends[i] when readable[i], and cannot be read otherwise.
FilesFrom(flat, ends, readable) ==
    [i \in DOMAIN ends |->
        IF readable[i]
        THEN [ok |-> TRUE,
              rows |-> SubSeq(flat, (IF i = 1 THEN 0 ELSE ends[i - 1]) + 1, ends[i])]
        ELSE Unreadable]

\* The state before the loop, merged = pd.DataFrame() and conflicts = [],
\* for every sorted glob of up to MaxFiles files that hold up to MaxTotalRows
\* rows of U together.
InitWith(U) ==
    /\ \E t \in 0..MaxTotalRows : \E flat \in [1..t -> U] :
       \E n \in 0..MaxFiles : \E ends \in [1..n -> 0..t] :
       \E readable \in [1..n -> BOOLEAN] :
          /\ \A i \in 1..n : (IF i = 1 THEN 0 ELSE ends[i - 1]) <= ends[i]
          /\ \A i \in 1..n : ~readable[i] => ends[i] = (IF i = 1 THEN 0 ELSE ends[i - 1])
          /\ IF n = 0 THEN t = 0 ELSE ends[n] = t
          /\ files = FilesFrom(flat, ends, readable)
    /\ fi = 1
    /\ ri = 0
    /\ merged = <<>>
    /\ conflicts = <<>>
    /\ pc = "files"
    /\ outputs = {}
    /\ LoadIdle

\* ------------------------------------------------------------ input rows
Row(symbol, name, exchange, ipoDate, delistingDate, status) ==
    [symbol |-> symbol, name |-> name, exchange |-> exchange,
     assetType |-> <<"S","t","o","c","k">>, ipoDate |-> ipoDate,
     delistingDate |-> delistingDate, status |-> status]

sABC == <<"A","B","C">>
sAbcLower == <<"a","b","c">>
sXYZ == <<"X","Y","Z">>
sNYSE == <<"N","Y","S","E">>
sNASDAQ == <<"N","A","S","D","A","Q">>
sActive == <<"A","c","t","i","v","e">>
sDelisted == <<"D","e","l","i","s","t","e","d">>
sDate1 == <<"2","0","0","1","-","0","1","-","0","1">>
sDate2 == <<"2","0","0","1","-","0","2","-","1","5">>
sDate3 == <<"2","0","2","0","-","0","6","-","3","0">>
sAbcCorp == <<"A","B","C"," ","C","O","R","P">>
sAbcCorporation == <<"A","B","C"," ","C","O","R","P","O","R","A","T","I","O","N">>
sXyzHoldings == <<"X","Y","Z"," ","H","O","L","D","I","N","G","S">>

\* ABC on NYSE, "ABC CORP", IPO 2001-01-01, and the same row with one change:
\* the IPO date, the name (twice), the status and delisting date, no symbol,
\* the symbol in lower case, another exchange; and another security.
rBase == Row(sABC, sAbcCorp, sNYSE, sDate1, NaN, sActive)
rIpo == Row(sABC, sAbcCorp, sNYSE, sDate2, NaN, sActive)
rCorporation == Row(sABC, sAbcCorporation, sNYSE, sDate1, NaN, sActive)
rXyz == Row(sABC, sXyzHoldings, sNYSE, sDate1, NaN, sActive)
rDelisted == Row(sABC, sAbcCorp, sNYSE, sDate1, sDate3, sDelisted)
rNoSymbol == Row(NaN, sAbcCorp, sNYSE, sDate1, NaN, sActive)
rLower == Row(sAbcLower, sAbcCorp, sNYSE, sDate1, NaN, sActive)
rNasdaq == Row(sABC, sXyzHoldings, sNASDAQ, sDate1, NaN, sActive)
rOther == Row(sXYZ, sXyzHoldings, sNYSE, sDate2, NaN, sActive)

sAbcdef == <<"A","B","C","D","E","F">>
sAbcdeDot == <<"A","b","c","d","e",".">>
sZabcde == <<"Z","A","B","C","D","E">>
sETF == <<"E","T","F">>

\* ABC on NYSE under three names: "ABCDEF"; "Abcde.", which normalises to
\* "ABCDE", with every other field but the key changed; and "ZABCDE".  The
\* ratio of the normalised names is 10/11 for the second against either of the
\* others and 10/12 for the first against the third.
rAbcdef == Row(sABC, sAbcdef, sNYSE, sDate1, NaN, sActive)
rAbcde == [Row(sABC, sAbcdeDot, sNYSE, sDate2, sDate3, sDelisted) EXCEPT !["assetType"] = sETF]
rZabcde == Row(sABC, sZabcde, sNYSE, sDate1, NaN, sActive)

sDashes == <<"-","-">>

\* ABC on NYSE without a name, and under the name "--", which normalises to
\* the empty string, with every other field but the key changed.
rNoName == Row(sABC, NaN, sNYSE, sDate1, NaN, sActive)
rDashes == [Row(sABC, sDashes, sNYSE, sDate2, sDate3, sDelisted) EXCEPT !["assetType"] = sETF]

\* --------------------------------------------------------- specifications
\* Snapshots over the base row, its IPO-date and name variants and a row
\* without a symbol.
MainRows == {rBase, rIpo, rXyz, rNoSymbol}

Init == InitWith(MainRows)

Spec == Init /\ [][Next]_vars

\* Snapshots over rows whose keys differ in case or in the exchange only.
KeyRows == {rBase, rXyz, rLower, rNasdaq}

InitKeys == InitWith(KeyRows)

SpecKeys == InitKeys /\ [][Next]_vars

\* Snapshots over the name examples of the specification.
NameRows == {rBase, rCorporation, rXyz, rDelisted, rOther}

InitNames == InitWith(NameRows)

SpecNames == InitNames /\ [][Next]_vars

\* Snapshots over the three similar names and another security.
SimilarRows == {rAbcdef, rAbcde, rZabcde, rOther}

InitSimilar == InitWith(SimilarRows)

SpecSimilar == InitSimilar /\ [][Next]_vars

\* Snapshots over rows whose names are missing or normalise to nothing.
EmptyNameRows == {rNoName, rDashes, rBase, rOther}

InitEmptyNames == InitWith(EmptyNameRows)

SpecEmptyNames == InitEmptyNames /\ [][Next]_vars

\* The step-by-step run and the loop as a function end in the same state.
FoldAgrees ==
    pc \in {"done", "crashed"} =>
        Reconcile(files) = [merged |-> merged, conflicts |-> conflicts, pc |-> pc]

\* ----------------------------------------------------------------- claims
\* A row of a snapshot that is not the seed is about to be handled.
AtRow == pc = "rows" /\ ri <= Len(df)

\* The row the last step of the row loop handled.
HandledRow == df[ri - 1]
AfterRow == pc = "rows" /\ ri > 1

\* Two rows carry the same (symbol, exchange) tuple, compared exactly.
SameKey(r, s) == r["symbol"] = s["symbol"] /\ r["exchange"] = s["exchange"]

\* The row has a symbol and an exchange.
HasKey(r) == r["symbol"] # NaN /\ r["exchange"] # NaN

\* The candidate set of the row r in the table m: the positions of the rows
\* with r's key (a missing symbol or exchange equals nothing).
CandidateSet(m, r) == {k \in DOMAIN m : HasKey(r) /\ SameKey(m[k], r)}

NoDiffRule(c, r) == DOMAIN row_diffs(c, r) = {}
IpoDateOnlyRule(c, r) == DOMAIN row_diffs(c, r) = {"ipoDate"}
NameSimilarityRule(c, r) == SimilarEnough(normalize_name(c["name"]), normalize_name(r["name"]))
SomeRule(c, r) == NoDiffRule(c, r) \/ IpoDateOnlyRule(c, r) \/ NameSimilarityRule(c, r)

\* No candidate of r in m satisfies a rule, and there is a candidate.
Unmatched(m, r) ==
    /\ CandidateSet(m, r) # {}
    /\ \A k \in CandidateSet(m, r) : ~SomeRule(m[k], r)

IsPrefix(s, t) == Len(s) <= Len(t) /\ SubSeq(t, 1, Len(s)) = s

\* C1: an incoming row of a non-seed snapshot that has candidates, none of
\* which satisfies the no-diff, IPO-date-only or name-similarity rule, appends
\* exactly one conflict record (for that row) to the conflict log and leaves
\* the merged table unchanged.
C1_Quarantine ==
    [][(AtRow /\ Unmatched(merged, incoming_row)) =>
          /\ merged' = merged
          /\ Len(conflicts') = Len(conflicts) + 1
          /\ IsPrefix(conflicts, conflicts')
          /\ conflicts'[Len(conflicts')]["incoming_row"] = JsonSafeRow(incoming_row)]_vars

\* An unmatched row has just been logged and is not in the merged table.
C1_Witness ==
    /\ AfterRow
    /\ Unmatched(merged, HandledRow)
    /\ conflicts # <<>>
    /\ conflicts[Len(conflicts)]["incoming_row"] = JsonSafeRow(HandledRow)
    /\ conflicts[Len(conflicts)]["source_file"] = FileName(fi)
    /\ \A k \in DOMAIN merged : merged[k] # HandledRow

\* C2: an incoming row of a non-seed snapshot whose (symbol, exchange) tuple
\* equals that of no merged row, compared exactly and with regard to case, is
\* appended as it is at the end of the merged table, which grows by one row;
\* the conflict log is unchanged.
C2_NewSecurityInserted ==
    [][(AtRow /\ \A k \in DOMAIN merged : ~SameKey(merged[k], incoming_row)) =>
          /\ merged' = Append(merged, incoming_row)
          /\ Len(merged') = Len(merged) + 1
          /\ conflicts' = conflicts]_vars

\* A row was appended whose key differs from a merged row's only in the case
\* of the symbol, and another whose key differs only in the exchange.
C2_Witness ==
    /\ AfterRow
    /\ Len(merged) >= 2
    /\ merged[Len(merged)] = HandledRow
    /\ \A k \in 1..(Len(merged) - 1) : ~SameKey(merged[k], HandledRow)
    /\ \E k \in 1..(Len(merged) - 1) :
          \/ /\ merged[k]["symbol"] # HandledRow["symbol"]
             /\ UpperString(merged[k]["symbol"]) = UpperString(HandledRow["symbol"])
             /\ merged[k]["exchange"] = HandledRow["exchange"]
          \/ /\ merged[k]["symbol"] = HandledRow["symbol"]
             /\ merged[k]["exchange"] # HandledRow["exchange"]

\* C3: for every snapshot S, the run on [S, S] ends with the merged table
\* of the run on [S] alone and with an empty conflict log.
C3_IdenticalSnapshotsIdempotent ==
    (pc = "done" /\ Len(files) = 2 /\ files[1] = files[2]) =>
        /\ merged = Reconcile(<<files[1]>>).merged
        /\ conflicts = <<>>

\* The permutations of 1..n.
RowOrders(n) == {p \in [1..n -> 1..n] : \A j, k \in 1..n : p[j] = p[k] => j = k}

\* The files fs with the rows of the i-th file reordered by p.
PermuteFile(fs, i, p) ==
    [fs EXCEPT ![i] = [ok |-> fs[i].ok, rows |-> [k \in DOMAIN fs[i].rows |-> fs[i].rows[p[k]]]]]

\* The same rows, each as many times, in any order.
SameRows(s, t) ==
    /\ Len(s) = Len(t)
    /\ \A k \in DOMAIN s :
          Cardinality({j \in DOMAIN s : s[j] = s[k]}) = Cardinality({j \in DOMAIN t : t[j] = s[k]})

\* No two rows carry the same (symbol, exchange) tuple.
DistinctKeys(rows) == \A j, k \in DOMAIN rows : j # k => ~SameKey(rows[j], rows[k])

\* C4 as claimed: reordering the rows inside any one snapshot changes neither
\* the final merged table nor the final number of conflict records.
C4_OrderIndependent ==
    pc = "done" =>
        \A i \in DOMAIN files : \A p \in RowOrders(Len(files[i].rows)) :
            /\ Reconcile(PermuteFile(files, i, p)).merged = merged
            /\ Len(Reconcile(PermuteFile(files, i, p)).conflicts) = Len(conflicts)

\* C4 as amended: reordering the rows inside one snapshot whose rows carry
\* pairwise different (symbol, exchange) tuples changes neither the rows the
\* final merged table holds (their order may change) nor the final number of
\* conflict records.
C4_OrderIndependentDistinctKeys ==
    pc = "done" =>
        \A i \in DOMAIN files : DistinctKeys(files[i].rows) =>
            \A p \in RowOrders(Len(files[i].rows)) :
                /\ SameRows(Reconcile(PermuteFile(files, i, p)).merged, merged)
                /\ Len(Reconcile(PermuteFile(files, i, p)).conflicts) = Len(conflicts)

\* A finished run that logged a conflict, and a reordering of a snapshot of
\* pairwise different keys that changes the order of the merged table.
C4_Witness ==
    /\ pc = "done"
    /\ conflicts # <<>>
    /\ \E i \in DOMAIN files : \E p \in RowOrders(Len(files[i].rows)) :
          /\ DistinctKeys(files[i].rows)
          /\ Reconcile(PermuteFile(files, i, p)).merged # merged

\* C5: a row without a symbol, in any snapshot, is never added to the merged
\* table and never produces a conflict record.
C5_MalformedRowSkipped ==
    /\ \A k \in DOMAIN merged : merged[k]["symbol"] # NaN
    /\ \A k \in DOMAIN conflicts : conflicts[k]["incoming_row"]["symbol"] # None

\* The case of C6: the incoming row r is named "ABC CORPORATION" and the
\* merged row c "ABC CORP", with the same key and all other fields equal.
CorporationCase(c, r) ==
    /\ r["name"] = sAbcCorporation
    /\ c["name"] = sAbcCorp
    /\ DOMAIN row_diffs(c, r) = {"name"}

\* C6 as claimed: with a merged row named "ABC CORP", an incoming row with the
\* same key and all other fields equal but name "ABC CORPORATION" is a match:
\* no row is inserted and no conflict is logged.
C6_CorporationMatches ==
    [][(AtRow /\ \E k \in DOMAIN merged : CorporationCase(merged[k], incoming_row)) =>
          /\ merged' = merged
          /\ conflicts' = conflicts]_vars

\* C6 as amended: such an incoming row is not a match by the name-similarity
\* rule, the ratio of the normalised names being 16/23, below 0.90: no row is
\* inserted and, unless another candidate matches the incoming row, exactly
\* one conflict is logged.
C6_CorporationQuarantined ==
    [][(AtRow /\ \E k \in DOMAIN merged : CorporationCase(merged[k], incoming_row)) =>
          /\ name_similarity(normalize_name(sAbcCorp), normalize_name(sAbcCorporation)) = <<16, 23>>
          /\ merged' = merged
          /\ (\A k \in CandidateSet(merged, incoming_row) :
                  CorporationCase(merged[k], incoming_row) \/ ~SomeRule(merged[k], incoming_row))
              => /\ Len(conflicts') = Len(conflicts) + 1
                 /\ IsPrefix(conflicts, conflicts')
                 /\ conflicts'[Len(conflicts')]["incoming_row"] = JsonSafeRow(incoming_row)]_vars

\* "ABC CORPORATION" has just been compared with "ABC CORP" and logged.
C6_Witness ==
    /\ AfterRow
    /\ \E k \in DOMAIN merged : CorporationCase(merged[k], HandledRow)
    /\ conflicts # <<>>
    /\ conflicts[Len(conflicts)]["incoming_row"] = JsonSafeRow(HandledRow)
    /\ conflicts[Len(conflicts)]["source_file"] = FileName(fi)

\* C7: every unmatched incoming row produces exactly one conflict record, and
\* the diffs of every conflict record ever logged contain the key name.
C7_ConflictsShowNameDiff ==
    /\ [](\A k \in DOMAIN conflicts : "name" \in DOMAIN conflicts[k]["diffs"])
    /\ [][(AtRow /\ Unmatched(merged, incoming_row)) =>
             /\ Len(conflicts') = Len(conflicts) + 1
             /\ "name" \in DOMAIN conflicts'[Len(conflicts')]["diffs"]]_vars

\* "XYZ HOLDINGS" has just been compared with "ABC CORP" and logged once.
C7_Witness ==
    /\ AfterRow
    /\ HandledRow["name"] = sXyzHoldings
    /\ Len(conflicts) = 1
    /\ conflicts[1]["incoming_row"] = JsonSafeRow(HandledRow)
    /\ conflicts[1]["existing_rows"][1]["name"] = sAbcCorp
    /\ "name" \in DOMAIN conflicts[1]["diffs"]

\* C8: an incoming row whose diff against some candidate has ipoDate as its
\* only key is matched: merged table and conflict log are both unchanged.
C8_IpoDateOnlyMatches ==
    [][(AtRow /\ \E k \in CandidateSet(merged, incoming_row) :
                    IpoDateOnlyRule(merged[k], incoming_row)) =>
          /\ merged' = merged
          /\ conflicts' = conflicts]_vars

\* The row with IPO date 2001-02-15 has just been compared with the merged
\* row with IPO date 2001-01-01: no new row, no conflict.
C8_Witness ==
    /\ AfterRow
    /\ HandledRow = rIpo
    /\ \E k \in DOMAIN merged : merged[k] = rBase
    /\ \A k \in DOMAIN merged : merged[k] # rIpo
    /\ conflicts = <<>>

\* C9: in every step the merged table before the step is a prefix of the
\* merged table after it.
C9_MergedAppendOnly == [][IsPrefix(merged, merged')]_vars

\* A row of a later snapshot has just been appended behind the seed's rows.
C9_Witness ==
    /\ AfterRow
    /\ Len(merged) >= 2
    /\ merged[Len(merged)] = HandledRow
    /\ IsPrefix(files[1].rows, merged)
    /\ files[1].rows # <<>>
    /\ CandidateSet(SubSeq(merged, 1, Len(merged) - 1), HandledRow) = {}

\* C10: in every step the conflict log before the step is a prefix of the
\* conflict log after it: no record is modified or removed.
C10_ConflictsNeverMutated == [][IsPrefix(conflicts, conflicts')]_vars

\* A conflict was logged in the second snapshot against the one merged row of
\* its key; in the third snapshot a row of the same key has just matched, and
\* the record still holds the rows it was logged with.
C10_Witness ==
    /\ AfterRow
    /\ fi = 3
    /\ conflicts # <<>>
    /\ conflicts[1]["source_file"] = FileName(2)
    /\ conflicts[1]["symbol"] = HandledRow["symbol"]
    /\ conflicts[1]["exchange"] = HandledRow["exchange"]
    /\ \E k \in CandidateSet(merged, HandledRow) : SomeRule(merged[k], HandledRow)
    /\ conflicts[1]["existing_rows"] = <<JsonSafeRow(files[1].rows[1])>>

\* The snapshot merged was seeded from: the first one that holds a row.
SeedRows(fs) ==
    IF \E i \in DOMAIN fs : fs[i].rows # <<>>
    THEN fs[CHOOSE i \in DOMAIN fs : /\ fs[i].rows # <<>>
                                     /\ \A j \in 1..(i - 1) : fs[j].rows = <<>>].rows
    ELSE <<>>

\* No two of the rows carry the same (symbol, exchange) key; a row without a
\* symbol or an exchange has no key.
NoRepeatedKey(rows) ==
    \A j, k \in DOMAIN rows : (j # k /\ HasKey(rows[j])) => ~SameKey(rows[j], rows[k])

\* C11 as claimed: in every reachable state the merged table holds at most
\* one row for every (symbol, exchange) key, and the candidate set computed
\* for an incoming row has at most one row.
C11_CandidateSetAtMostOne ==
    /\ NoRepeatedKey(merged)
    /\ AtRow => Len(Candidates(merged, incoming_row)) <= 1

\* C11 as amended: in every reachable state of a run whose seed snapshot
\* holds no two rows with the same (symbol, exchange) key, the merged table
\* holds at most one row for every key, and the candidate set computed for an
\* incoming row has at most one row.
C11_CandidateSetAtMostOneAfterDistinctSeed ==
    NoRepeatedKey(SeedRows(files)) =>
        /\ NoRepeatedKey(merged)
        /\ AtRow => Len(Candidates(merged, incoming_row)) <= 1

\* After a seed of pairwise different keys, a row has just been quarantined
\* against the one merged row of its key, and the next row of the snapshot has
\* that one candidate again.
C11_Witness ==
    /\ AfterRow
    /\ AtRow
    /\ NoRepeatedKey(SeedRows(files))
    /\ Unmatched(merged, HandledRow)
    /\ conflicts # <<>>
    /\ SameKey(HandledRow, incoming_row)
    /\ Len(Candidates(merged, incoming_row)) = 1

\* C12: when a snapshot cannot be loaded, at whatever position and whatever
\* was merged in memory before, the run ends with an error at that snapshot
\* and takes no further step; neither the merged-table output nor the
\* conflict-log output is ever produced by a run with such a snapshot.
C12_UnreadableFailsWithoutOutput ==
    /\ [](pc = "crashed" => outputs = {})
    /\ []((pc = "done" \/ outputs # {}) => \A i \in DOMAIN files : files[i].ok)
    /\ [][(pc = "files" /\ fi <= Len(files) /\ ~files[fi].ok) =>
             /\ pc' = "crashed"
             /\ outputs' = {}]_vars
    /\ [][pc # "crashed"]_vars

\* The third snapshot could not be read after a seed and a second snapshot
\* that logged a conflict: the run has failed and has written nothing.
C12_Witness ==
    /\ pc = "crashed"
    /\ fi = 3
    /\ ~files[3].ok
    /\ merged # <<>>
    /\ conflicts # <<>>
    /\ outputs = {}

\* A snapshot is about to be processed while the merged table is empty.
AtSeed == pc = "files" /\ fi <= Len(files) /\ files[fi].ok /\ merged = <<>>

\* C13: a snapshot that starts being processed while the merged table is
\* empty is inserted whole: the merged table becomes the snapshot's rows in
\* file order, rows that share a key with each other included, and the
\* conflict log is unchanged; no conflict record ever names a snapshot that
\* was processed this way.
C13_Bootstrap ==
    /\ [][AtSeed => /\ merged' = files[fi].rows
                    /\ conflicts' = conflicts
                    /\ fi' = fi + 1
                    /\ pc' = "files"]_vars
    /\ [](\A k \in DOMAIN conflicts : \A i \in DOMAIN files :
             (\A j \in 1..(i - 1) : files[j].rows = <<>>) =>
                 conflicts[k]["source_file"] # FileName(i))

\* The seed, the second snapshot after an empty first one, has just been
\* copied with two rows of the same key that satisfy none of the rules against
\* each other: both are merged and nothing is logged.
C13_Witness ==
    /\ pc = "files"
    /\ fi = 3
    /\ files[1].rows = <<>>
    /\ merged = files[2].rows
    /\ Len(merged) >= 2
    /\ SameKey(merged[1], merged[2])
    /\ HasKey(merged[1])
    /\ ~SomeRule(merged[1], merged[2])
    /\ conflicts = <<>>

\* C14: an incoming row whose diff against some candidate is empty is
\* matched: it is not inserted and no conflict is logged, the merged table
\* and the conflict log are both unchanged by the row.
C14_NoDiffMatches ==
    [][(AtRow /\ \E k \in CandidateSet(merged, incoming_row) :
                    NoDiffRule(merged[k], incoming_row)) =>
          /\ merged' = merged
          /\ conflicts' = conflicts
          /\ ri' = ri + 1]_vars

\* A row equal to a seed row in every field has just been handled: the
\* merged table is still the seed, with that row once, and nothing is logged.
C14_Witness ==
    /\ AfterRow
    /\ fi = 2
    /\ \E k \in CandidateSet(merged, HandledRow) : merged[k] = HandledRow
    /\ Cardinality({k \in DOMAIN merged : merged[k] = HandledRow}) = 1
    /\ merged = files[1].rows
    /\ conflicts = <<>>

\* C15: an incoming row whose normalised name has a similarity ratio of at
\* least 0.90 with the normalised name of some candidate is matched, whichever
\* other fields differ between the two rows: it is not inserted and no
\* conflict is logged.
C15_SimilarNameMatches ==
    [][(AtRow /\ \E k \in CandidateSet(merged, incoming_row) :
                    NameSimilarityRule(merged[k], incoming_row)) =>
          /\ merged' = merged
          /\ conflicts' = conflicts
          /\ ri' = ri + 1]_vars

\* A row has just been handled that differs from its one candidate in the
\* name, with ratio 10/11 after normalisation, and in the asset type, the IPO
\* date, the delisting date and the status: no new row, no conflict.
C15_Witness ==
    /\ AfterRow
    /\ fi = 2
    /\ merged = files[1].rows
    /\ conflicts = <<>>
    /\ \E k \in DOMAIN merged :
          /\ CandidateSet(merged, HandledRow) = {k}
          /\ name_similarity(normalize_name(merged[k]["name"]),
                             normalize_name(HandledRow["name"])) = <<10, 11>>
          /\ DOMAIN row_diffs(merged[k], HandledRow) =
                {"name", "assetType", "ipoDate", "delistingDate", "status"}

\* C16: the merged table and the conflict log a run ends with are a function
\* of the ordered snapshot sequence alone: whatever steps a run from the empty
\* state takes on the sequence, it ends with the merged table and the conflict
\* log, record for record and in the same order, of any other run on it.
C16_Deterministic ==
    pc = "done" =>
        /\ merged = Reconcile(files).merged
        /\ conflicts = Reconcile(files).conflicts
        /\ Reconcile(files).pc = "done"

\* A finished run over two snapshots whose conflict record lists two existing
\* rows of its key, which differ from the incoming row in unlike fields.
C16_Witness ==
    /\ pc = "done"
    /\ Len(files) >= 2
    /\ merged # <<>>
    /\ \E k \in DOMAIN conflicts :
          /\ Len(conflicts[k]["existing_rows"]) >= 2
          /\ DOMAIN row_diffs(conflicts[k]["existing_rows"][1], conflicts[k]["incoming_row"])
                # DOMAIN row_diffs(conflicts[k]["existing_rows"][2], conflicts[k]["incoming_row"])

\* The field c is missing in the row r.
Missing(r, c) == r[c] = NaN

\* C17: row_diffs(existing, incoming) records a field exactly when the two
\* values differ as strings and at least one of them is not missing; a field
\* missing on both sides is never recorded and a field missing on exactly one
\* side is always recorded, with the two values as they are in the rows.
C17_DiffRule ==
    AtRow => \A k \in DOMAIN merged : \A c \in Columns :
        LET existing == merged[k]
            diffs == row_diffs(existing, incoming_row)
        IN  /\ c \in DOMAIN diffs <=>
                  /\ Str(existing[c]) # Str(incoming_row[c])
                  /\ ~Missing(existing, c) \/ ~Missing(incoming_row, c)
            /\ (Missing(existing, c) /\ Missing(incoming_row, c)) => c \notin DOMAIN diffs
            /\ (Missing(existing, c) # Missing(incoming_row, c)) => c \in DOMAIN diffs
            /\ c \in DOMAIN diffs => diffs[c] = <<existing[c], incoming_row[c]>>

\* A row with a delisting date has just been compared with a merged row
\* without one and logged, the delisting date among the diffs next to the
\* status, which differs, and without the exchange, which is equal; the next
\* row and the merged row both lack the delisting date, which is not recorded.
C17_Witness ==
    /\ AfterRow
    /\ AtRow
    /\ conflicts # <<>>
    /\ conflicts[Len(conflicts)]["incoming_row"] = JsonSafeRow(HandledRow)
    /\ Missing(merged[1], "delistingDate")
    /\ ~Missing(HandledRow, "delistingDate")
    /\ {"delistingDate", "status"} \subseteq DOMAIN conflicts[Len(conflicts)]["diffs"]
    /\ "exchange" \notin DOMAIN conflicts[Len(conflicts)]["diffs"]
    /\ Missing(incoming_row, "delistingDate")
    /\ "delistingDate" \notin DOMAIN row_diffs(merged[1], incoming_row)

\* C18 as claimed: the diffs of a conflict record hold a field only where the
\* existing and the incoming value differ and neither of the two is missing.
C18_DiffsOnlyWhereBothPresent ==
    \A k \in DOMAIN conflicts : \A c \in DOMAIN conflicts[k]["diffs"] :
        /\ conflicts[k]["diffs"][c][1] # conflicts[k]["diffs"][c][2]
        /\ conflicts[k]["diffs"][c][1] # None
        /\ conflicts[k]["diffs"][c][2] # None

\* C18 as amended: the diffs of a conflict record hold a field exactly where
\* the value of the first existing row and the incoming value differ and are
\* not both missing; a field missing on one side and present on the other
\* always appears, the missing value as null.
C18_DiffsWhereNotBothMissing ==
    \A k \in DOMAIN conflicts : \A c \in Columns :
        LET diffs == conflicts[k]["diffs"]
            existing == conflicts[k]["existing_rows"][1]
            incoming == conflicts[k]["incoming_row"]
        IN  /\ c \in DOMAIN diffs <=>
                  /\ existing[c] # incoming[c]
                  /\ existing[c] # None \/ incoming[c] # None
            /\ ((existing[c] = None) # (incoming[c] = None)) => c \in DOMAIN diffs
            /\ c \in DOMAIN diffs => diffs[c] = <<existing[c], incoming[c]>>

\* A finished run whose conflict record holds the delisting date, missing in
\* the existing row and present in the incoming row, next to the name, present
\* and different on both sides.
C18_Witness ==
    /\ pc = "done"
    /\ Len(conflicts) = 1
    /\ "delistingDate" \in DOMAIN conflicts[1]["diffs"]
    /\ conflicts[1]["diffs"]["delistingDate"] = <<None, sDate3>>
    /\ "name" \in DOMAIN conflicts[1]["diffs"]
    /\ conflicts[1]["diffs"]["name"] = <<sXyzHoldings, sAbcCorp>>

\* The rows of the table m that carry the key of the row r, in table order.
RowsOfKey(m, r) == SelectSeq(m, LAMBDA e : HasKey(r) /\ SameKey(e, r))

\* C19: the record a step appends to the conflict log carries the incoming
\* row's symbol and exchange, the name of the snapshot being processed, the
\* incoming row itself, the diffs of the incoming row against the first merged
\* row of its key in table order, and as existing_rows all the merged rows of
\* that key, at least one, in table order, as they are at that step; every
\* record in the log keeps this shape.
C19_ConflictRecordContents ==
    /\ [][Len(conflicts') > Len(conflicts) =>
            LET rec == conflicts'[Len(conflicts')]
                existing == RowsOfKey(merged, incoming_row)
            IN  /\ AtRow
                /\ Len(conflicts') = Len(conflicts) + 1
                /\ rec["symbol"] = incoming_row["symbol"]
                /\ rec["exchange"] = incoming_row["exchange"]
                /\ rec["source_file"] = FileName(fi)
                /\ rec["incoming_row"] = JsonSafeRow(incoming_row)
                /\ existing # <<>>
                /\ rec["existing_rows"] = [k \in DOMAIN existing |-> JsonSafeRow(existing[k])]
                /\ rec["diffs"] = JsonSafeDiffs(row_diffs(existing[1], incoming_row))]_vars
    /\ [](\A k \in DOMAIN conflicts :
            /\ conflicts[k]["existing_rows"] # <<>>
            /\ conflicts[k]["symbol"] # None
            /\ conflicts[k]["exchange"] # None
            /\ conflicts[k]["incoming_row"]["symbol"] = conflicts[k]["symbol"]
            /\ conflicts[k]["incoming_row"]["exchange"] = conflicts[k]["exchange"]
            /\ \A j \in DOMAIN conflicts[k]["existing_rows"] :
                  /\ conflicts[k]["existing_rows"][j]["symbol"] = conflicts[k]["symbol"]
                  /\ conflicts[k]["existing_rows"][j]["exchange"] = conflicts[k]["exchange"]
            /\ \E i \in DOMAIN files : conflicts[k]["source_file"] = FileName(i))

\* A row has just been logged against two merged rows of its key, from which
\* it differs in unlike fields: the record lists both, in table order, and its
\* diffs are those against the first.
C19_Witness ==
    /\ AfterRow
    /\ conflicts # <<>>
    /\ LET rec == conflicts[Len(conflicts)]
       IN  /\ rec["incoming_row"] = JsonSafeRow(HandledRow)
           /\ rec["source_file"] = FileName(fi)
           /\ Len(rec["existing_rows"]) = 2
           /\ rec["existing_rows"] = <<JsonSafeRow(merged[1]), JsonSafeRow(merged[2])>>
           /\ DOMAIN rec["diffs"] = DOMAIN row_diffs(merged[1], HandledRow)
           /\ DOMAIN rec["diffs"] # DOMAIN row_diffs(merged[2], HandledRow)

\* C20: an incoming row with more than one candidate is matched when any one
\* candidate, the first in table order or a later one, satisfies the no-diff,
\* the IPO-date-only or the name-similarity rule: the row is not inserted and
\* no conflict is logged, also when the row fails all three rules against the
\* first candidate; when no candidate satisfies a rule, one conflict is logged.
C20_CandidateScan ==
    [][(AtRow /\ Cardinality(CandidateSet(merged, incoming_row)) > 1) =>
          /\ merged' = merged
          /\ IF \E k \in CandidateSet(merged, incoming_row) : SomeRule(merged[k], incoming_row)
             THEN conflicts' = conflicts
             ELSE Len(conflicts') = Len(conflicts) + 1]_vars

\* A row has just been handled that has two candidates, fails the three rules
\* against the first and meets the name-similarity rule, and no other, against
\* the second: nothing is logged and the merged table is the seed.
C20_Witness ==
    /\ AfterRow
    /\ fi = 2
    /\ merged = files[1].rows
    /\ conflicts = <<>>
    /\ CandidateSet(merged, HandledRow) = {1, 2}
    /\ ~SomeRule(merged[1], HandledRow)
    /\ NameSimilarityRule(merged[2], HandledRow)
    /\ ~NoDiffRule(merged[2], HandledRow)
    /\ ~IpoDateOnlyRule(merged[2], HandledRow)

\* The merged table as it was when the snapshot being processed started.
MergedAtSnapshotStart == Reconcile(SubSeq(files, 1, fi - 1)).merged

\* C21: snapshots are processed in sequence order, every row of a snapshot in
\* file order before the next snapshot starts; an incoming row of a non-seed
\* snapshot is compared against the merged table as accumulated so far, rows
\* appended earlier from the same snapshot included: a row whose key is that
\* of a row appended earlier from its own snapshot is not inserted.
C21_StrictOrderWithAccumulation ==
    /\ [][/\ fi' \in {fi, fi + 1}
          /\ fi' = fi + 1 => (pc = "files" \/ ri > Len(df))
          /\ (pc = "rows" /\ fi' = fi) => ri' = ri + 1
          /\ (pc = "files" /\ pc' = "rows") => ri' = 1]_vars
    /\ [][(AtRow /\ HasKey(incoming_row)
                 /\ \E k \in (Len(MergedAtSnapshotStart) + 1)..Len(merged) :
                        SameKey(merged[k], incoming_row)) =>
             /\ merged' = merged
             /\ \/ conflicts' = conflicts
                \/ /\ Len(conflicts') = Len(conflicts) + 1
                   /\ \E j \in DOMAIN conflicts'[Len(conflicts')]["existing_rows"] :
                         \E i \in 1..(ri - 1) :
                            conflicts'[Len(conflicts')]["existing_rows"][j] = JsonSafeRow(df[i])]_vars
    /\ [](pc = "rows" => IsPrefix(MergedAtSnapshotStart, merged))

\* The first row of the second snapshot carried a new key and was appended;
\* the second row carries the same key under an unlike name and has just been
\* compared with the first: it is logged against it and not inserted.
C21_Witness ==
    /\ AfterRow
    /\ fi = 2
    /\ ri = 3
    /\ SameKey(df[1], df[2])
    /\ HasKey(df[1])
    /\ \A k \in DOMAIN files[1].rows : ~SameKey(files[1].rows[k], df[1])
    /\ merged = Append(files[1].rows, df[1])
    /\ Len(conflicts) = 1
    /\ conflicts[1]["existing_rows"] = <<JsonSafeRow(df[1])>>
    /\ conflicts[1]["incoming_row"] = JsonSafeRow(df[2])

\* The normalised name of the row r is empty.
EmptyName(r) == normalize_name(r["name"]) = <<>>

\* C22: an incoming row and a candidate whose normalised names are both empty
\* have ratio 1.0 and the row is matched whatever other fields differ; an
\* incoming row with an empty normalised name whose candidates all have a
\* non-empty one, or the other way round, has ratio 0.0 against each candidate
\* and, its raw name differing from theirs, is not matched: it is not inserted
\* and one conflict is logged for it.
C22_EmptyNameBoundary ==
    /\ [][(AtRow /\ EmptyName(incoming_row)
                 /\ \E k \in CandidateSet(merged, incoming_row) : EmptyName(merged[k])) =>
             /\ name_similarity(<<>>, normalize_name(incoming_row["name"])) = <<1, 1>>
             /\ merged' = merged
             /\ conflicts' = conflicts]_vars
    /\ [][(AtRow /\ CandidateSet(merged, incoming_row) # {}
                 /\ \A k \in CandidateSet(merged, incoming_row) :
                       /\ EmptyName(merged[k]) # EmptyName(incoming_row)
                       /\ merged[k]["name"] # incoming_row["name"]) =>
             /\ \A k \in CandidateSet(merged, incoming_row) :
                   name_similarity(normalize_name(merged[k]["name"]),
                                   normalize_name(incoming_row["name"])) = <<0, 1>>
             /\ merged' = merged
             /\ Len(conflicts') = Len(conflicts) + 1
             /\ conflicts'[Len(conflicts')]["incoming_row"] = JsonSafeRow(incoming_row)]_vars

\* The seed row has no name.  The first row of the second snapshot, named
\* "--" and different in every field but the key, was matched; the second,
\* named "ABC CORP", has just been logged.
C22_Witness ==
    /\ AfterRow
    /\ fi = 2
    /\ ri = 3
    /\ merged = files[1].rows
    /\ Len(merged) = 1
    /\ merged[1]["name"] = NaN
    /\ df[1]["name"] = sDashes
    /\ SameKey(df[1], merged[1])
    /\ DOMAIN row_diffs(merged[1], df[1]) = {"name", "assetType", "ipoDate", "delistingDate", "status"}
    /\ ~EmptyName(df[2])
    /\ Len(conflicts) = 1
    /\ conflicts[1]["incoming_row"] = JsonSafeRow(df[2])

\* The position of the seed snapshot, the first one that holds a row; past
\* the last position when there is none.
SeedIndex(fs) ==
    IF \E i \in DOMAIN fs : fs[i].rows # <<>>
    THEN CHOOSE i \in DOMAIN fs : /\ fs[i].rows # <<>>
                                  /\ \A j \in 1..(i - 1) : fs[j].rows = <<>>
    ELSE Len(fs) + 1

\* The rows of the snapshots after the seed, as <<snapshot, position>>, that
\* no row of their key in the table m matches.
UnmatchedPasses(fs, m) ==
    {p \in (DOMAIN fs) \X (1..MaxTotalRows) :
        /\ p[1] > SeedIndex(fs)
        /\ p[2] \in DOMAIN fs[p[1]].rows
        /\ Unmatched(m, fs[p[1]].rows[p[2]])}

\* C23: an unmatched row is logged at every pass: a row that an earlier
\* snapshot's pass logged is logged again, under the snapshot being processed,
\* and is not inserted; a finished run has logged as many records as there are
\* unmatched rows in the snapshots after the seed, for every snapshot as many
\* as that snapshot holds.
C23_ConflictsRepeatPerSnapshot ==
    /\ [][(AtRow /\ \E k \in DOMAIN conflicts :
                       /\ conflicts[k]["incoming_row"] = JsonSafeRow(incoming_row)
                       /\ conflicts[k]["source_file"] # FileName(fi)) =>
             /\ merged' = merged
             /\ Len(conflicts') = Len(conflicts) + 1
             /\ conflicts'[Len(conflicts')]["incoming_row"] = JsonSafeRow(incoming_row)
             /\ conflicts'[Len(conflicts')]["source_file"] = FileName(fi)]_vars
    /\ [](pc = "done" =>
             /\ Len(conflicts) = Cardinality(UnmatchedPasses(files, merged))
             /\ \A i \in DOMAIN files :
                   Cardinality({k \in DOMAIN conflicts : conflicts[k]["source_file"] = FileName(i)})
                     = Cardinality({p \in UnmatchedPasses(files, merged) : p[1] = i}))

\* A finished run over a seed and two further snapshots that both hold the
\* same unmatched row: two records, one under either snapshot, with the same
\* incoming row, which the merged table does not hold.
C23_Witness ==
    /\ pc = "done"
    /\ Len(files) = 3
    /\ files[2].rows = files[3].rows
    /\ Len(files[2].rows) = 1
    /\ merged = files[1].rows
    /\ Len(conflicts) = 2
    /\ conflicts[1]["source_file"] = FileName(2)
    /\ conflicts[2]["source_file"] = FileName(3)
    /\ conflicts[1]["incoming_row"] = conflicts[2]["incoming_row"]
    /\ conflicts[1]["incoming_row"] = JsonSafeRow(files[2].rows[1])

\* The incoming row r is matched in the table m by the IPO-date-only or the
\* name-similarity rule and equals no candidate.
MatchedWithChanges(m, r) ==
    /\ \E k \in CandidateSet(m, r) : IpoDateOnlyRule(m[k], r) \/ NameSimilarityRule(m[k], r)
    /\ \A k \in CandidateSet(m, r) : ~NoDiffRule(m[k], r)

\* The first row with the key of r in the snapshots fs, in processing order.
FirstSeen(fs, r) ==
    LET at == {p \in (DOMAIN fs) \X (1..MaxTotalRows) :
                  p[2] \in DOMAIN fs[p[1]].rows /\ SameKey(fs[p[1]].rows[p[2]], r)}
        first == CHOOSE p \in at : \A q \in at :
                    p[1] < q[1] \/ (p[1] = q[1] /\ p[2] <= q[2])
    IN  fs[first[1]].rows[first[2]]

\* C24: an incoming row matched by the IPO-date-only or the name-similarity
\* rule leaves every field of every merged row unchanged and logs nothing: the
\* row, with the values in which it differs, is in neither the merged table
\* nor the conflict log, and the first merged row of every key holds the
\* values of the first snapshot row in which the key appeared.
C24_FirstSeenValuesRetained ==
    /\ [][(AtRow /\ MatchedWithChanges(merged, incoming_row)) =>
             /\ merged' = merged
             /\ conflicts' = conflicts
             /\ \A k \in DOMAIN merged' : merged'[k] # incoming_row
             /\ \A k \in DOMAIN conflicts' :
                   conflicts'[k]["incoming_row"] # JsonSafeRow(incoming_row)]_vars
    /\ [](\A k \in DOMAIN merged :
             (HasKey(merged[k]) /\ \A j \in 1..(k - 1) : ~SameKey(merged[j], merged[k])) =>
                 merged[k] = FirstSeen(files, merged[k]))

\* A delisted row under a similar name has just been matched against the
\* active seed row of its key: the merged table is the seed, no row of it is
\* delisted or has a delisting date, and nothing is logged.
C24_Witness ==
    /\ AfterRow
    /\ fi = 2
    /\ MatchedWithChanges(merged, HandledRow)
    /\ HandledRow["status"] = sDelisted
    /\ HandledRow["delistingDate"] = sDate3
    /\ merged = files[1].rows
    /\ \A k \in DOMAIN merged : merged[k]["status"] = sActive /\ merged[k]["delistingDate"] = NaN
    /\ \E k \in CandidateSet(merged, HandledRow) : merged[k]["name"] # HandledRow["name"]
    /\ conflicts = <<>>

\* Every row of every snapshot has a symbol and an exchange.
AllRowsKeyed(fs) == \A i \in DOMAIN fs : \A j \in DOMAIN fs[i].rows : HasKey(fs[i].rows[j])

\* The (symbol, exchange) keys of the rows of the snapshots before the i-th.
KeysBefore(fs, i) ==
    {<<fs[p[1]].rows[p[2]]["symbol"], fs[p[1]].rows[p[2]]["exchange"]>> :
        p \in {q \in (1..(i - 1)) \X (1..MaxTotalRows) :
                  q[1] \in DOMAIN fs /\ q[2] \in DOMAIN fs[q[1]].rows}}

\* C25: when the seed snapshot holds no two rows with the same (symbol,
\* exchange) key and no row of any snapshot lacks a symbol or an exchange, the
\* merged table holds at most one row per key at every point of the run, and
\* between snapshots exactly one row for every key seen so far.
C25_KeysUniqueAfterDistinctSeed ==
    (DistinctKeys(SeedRows(files)) /\ AllRowsKeyed(files)) =>
        /\ DistinctKeys(merged)
        /\ pc \in {"files", "done"} =>
              {<<merged[k]["symbol"], merged[k]["exchange"]>> : k \in DOMAIN merged}
                 = KeysBefore(files, fi)
        /\ pc \in {"files", "done"} => Len(merged) = Cardinality(KeysBefore(files, fi))

\* A finished run over three snapshots, the seed with one row, in which a
\* row was logged for a key the merged table holds and a row of another key
\* was appended: two merged rows, of two keys, out of three snapshot rows.
C25_Witness ==
    /\ pc = "done"
    /\ Len(files) = 3
    /\ AllRowsKeyed(files)
    /\ Len(files[1].rows) = 1
    /\ Len(files[2].rows) = 1
    /\ Len(files[3].rows) = 1
    /\ Len(merged) = 2
    /\ ~SameKey(merged[1], merged[2])
    /\ Len(conflicts) = 1
    /\ SameKey(merged[1], files[2].rows[1]) \/ SameKey(merged[2], files[3].rows[1])

\* ------------------------------------- alphavantage_dbsetup.py: ticker load
\* The widths of the VARCHAR columns of the ticker table.
SymbolWidth == 20
NameWidth == 255
ExchangeWidth == 50
AssetTypeWidth == 50
StatusWidth == 20

\* The load commits after every CommitEvery successful statements.
CommitEvery == 1000

\* The number a string of digits denotes.
RECURSIVE DigitsValue(_)
DigitsValue(s) ==
    IF s = <<>> THEN 0
    ELSE 10 * DigitsValue(SubSeq(s, 1, Len(s) - 1))
         + (CHOOSE d \in 0..9 : <<"0","1","2","3","4","5","6","7","8","9">>[d + 1] = s[Len(s)])

AllDigits(s) == \A k \in DOMAIN s : s[k] \in Digits

DaysInMonth(y, m) ==
    IF m \in {4, 6, 9, 11} THEN 30
    ELSE IF m # 2 THEN 31
    ELSE IF (y % 4 = 0 /\ y % 100 # 0) \/ y % 400 = 0 THEN 29
    ELSE 28

\* datetime.strptime(s, '%Y-%m-%d').date(), None standing for the ValueError
\* the loader passes over: four digits, one or two, one or two, and a day the
\* month has.
ParseDate(s) ==
    LET dashes == {k \in DOMAIN s : s[k] = "-"}
    IN  IF Cardinality(dashes) # 2 THEN None
        ELSE LET d1 == CHOOSE k \in dashes : \A j \in dashes : k <= j
                 d2 == CHOOSE k \in dashes : \A j \in dashes : k >= j
                 ys == SubSeq(s, 1, d1 - 1)
                 ms == SubSeq(s, d1 + 1, d2 - 1)
                 ds == SubSeq(s, d2 + 1, Len(s))
             IN  IF /\ Len(ys) = 4 /\ Len(ms) \in {1, 2} /\ Len(ds) \in {1, 2}
                    /\ AllDigits(ys) /\ AllDigits(ms) /\ AllDigits(ds)
                    /\ DigitsValue(ys) >= 1
                    /\ DigitsValue(ms) \in 1..12
                    /\ DigitsValue(ds) \in 1..DaysInMonth(DigitsValue(ys), DigitsValue(ms))
                 THEN <<DigitsValue(ys), DigitsValue(ms), DigitsValue(ds)>>
                 ELSE None

\* row[k].strip() if row[k] else None, with k counted from 1.
CsvField(row, k) == IF row[k] # <<>> THEN Strip(row[k]) ELSE None

\* row[k].strip() if len(row) > k and row[k] else None, with k counted from 1.
CsvOptionalField(row, k) == IF Len(row) >= k /\ row[k] # <<>> THEN Strip(row[k]) ELSE None

\* "not symbol": None or the empty string.
NoSymbol(row) == CsvField(row, 1) = None \/ CsvField(row, 1) = <<>>

\* The parameters of the INSERT for a row of four or more fields.
TickerValues(row) ==
    LET ipo_date == CsvOptionalField(row, 5)
        delisting_date == CsvOptionalField(row, 6)
    IN  [symbol |-> CsvField(row, 1),
         name |-> CsvField(row, 2),
         exchange |-> CsvField(row, 3),
         asset_type |-> CsvField(row, 4),
         ipo_date |-> IF ipo_date = None \/ ipo_date = <<>> THEN None ELSE ParseDate(ipo_date),
         delisting_date |-> IF delisting_date = None \/ delisting_date = <<>>
                            THEN None ELSE ParseDate(delisting_date),
         status |-> IF Len(row) >= 7 /\ row[7] # <<>> THEN Strip(row[7])
                    ELSE <<"A","c","t","i","v","e">>]

\* The value fits a VARCHAR(width) column; NULL fits any.
FitsColumn(v, width) == v = None \/ Len(v) <= width

\* The statement raises no DataError: every string fits its column.
FitsTable(rec) ==
    /\ FitsColumn(rec.symbol, SymbolWidth)
    /\ FitsColumn(rec.name, NameWidth)
    /\ FitsColumn(rec.exchange, ExchangeWidth)
    /\ FitsColumn(rec.asset_type, AssetTypeWidth)
    /\ FitsColumn(rec.status, StatusWidth)

\* INSERT ... ON CONFLICT (symbol) DO UPDATE SET ... = EXCLUDED....
Upsert(table, rec) == {r \in table : r.symbol # rec.symbol} \cup {rec}

\* The row csv_reader is at.
csv_row == csv_rows[li]

\* len(row) < 4: continue.
LoadSkipShortRow ==
    /\ lpc = "load"
    /\ li <= Len(csv_rows)
    /\ Len(csv_row) < 4
    /\ li' = li + 1
    /\ UNCHANGED <<files, fi, ri, merged, conflicts, pc, outputs>>
    /\ UNCHANGED <<csv_rows, ticker, committed, txn, inserted_count, skipped_count, lpc>>

\* not symbol: continue.
LoadSkipNoSymbol ==
    /\ lpc = "load"
    /\ li <= Len(csv_rows)
    /\ Len(csv_row) >= 4
    /\ NoSymbol(csv_row)
    /\ li' = li + 1
    /\ UNCHANGED <<files, fi, ri, merged, conflicts, pc, outputs>>
    /\ UNCHANGED <<csv_rows, ticker, committed, txn, inserted_count, skipped_count, lpc>>

\* cursor.execute succeeds: the row is inserted or replaces the row of its
\* symbol; every CommitEvery statements the transaction is committed.
LoadUpsert ==
    /\ lpc = "load"
    /\ li <= Len(csv_rows)
    /\ Len(csv_row) >= 4
    /\ ~NoSymbol(csv_row)
    /\ txn = "open"
    /\ FitsTable(TickerValues(csv_row))
    /\ ticker' = Upsert(ticker, TickerValues(csv_row))
    /\ inserted_count' = inserted_count + 1
    /\ committed' = IF inserted_count' % CommitEvery = 0 THEN ticker' ELSE committed
    /\ li' = li + 1
    /\ UNCHANGED <<files, fi, ri, merged, conflicts, pc, outputs>>
    /\ UNCHANGED <<csv_rows, txn, skipped_count, lpc>>

\* cursor.execute raises psycopg2.Error, a value too long for its column or,
\* the transaction having failed already, any statement: the error is printed
\* and the loop goes on, in a transaction that stays failed, for no rollback
\* is issued.
LoadInsertError ==
    /\ lpc = "load"
    /\ li <= Len(csv_rows)
    /\ Len(csv_row) >= 4
    /\ ~NoSymbol(csv_row)
    /\ txn = "failed" \/ ~FitsTable(TickerValues(csv_row))
    /\ txn' = "failed"
    /\ skipped_count' = skipped_count + 1
    /\ li' = li + 1
    /\ UNCHANGED <<files, fi, ri, merged, conflicts, pc, outputs>>
    /\ UNCHANGED <<csv_rows, ticker, committed, inserted_count, lpc>>

\* The rows are exhausted: conn.commit(), which ends a failed transaction by
\* rolling it back.
LoadCommit ==
    /\ lpc = "load"
    /\ li > Len(csv_rows)
    /\ committed' = IF txn = "open" THEN ticker ELSE committed
    /\ ticker' = committed'
    /\ txn' = "open"
    /\ lpc' = "loaded"
    /\ UNCHANGED <<files, fi, ri, merged, conflicts, pc, outputs>>
    /\ UNCHANGED <<csv_rows, li, inserted_count, skipped_count>>

NextLoad ==
    \/ LoadSkipShortRow
    \/ LoadSkipNoSymbol
    \/ LoadUpsert
    \/ LoadInsertError
    \/ LoadCommit

\* ----------------------------------------------------- ticker load: inputs
sStock == <<"S","t","o","c","k">>
sOldName == <<"O","L","D">>
sBadDate == <<"2","0","0","1","-","0","2","-","3","0">>
sLongSymbol == <<"A","B","C","D","E","F","G","H","I","J","K","L","M","N","O","P","Q","R","S","T","U">>

\* The header line merged.to_csv writes; csv.reader yields it as a row.
csvHeader == << <<"s","y","m","b","o","l">>, <<"n","a","m","e">>,
                <<"e","x","c","h","a","n","g","e">>, <<"a","s","s","e","t","T","y","p","e">>,
                <<"i","p","o","D","a","t","e">>,
                <<"d","e","l","i","s","t","i","n","g","D","a","t","e">>,
                <<"s","t","a","t","u","s">> >>

\* ABC on NYSE and on NASDAQ with unlike values in every other field; XYZ
\* with a date no calendar has and no status; a row without a symbol; a row
\* whose symbol is wider than its column; a blank line.
csvAbcNyse == <<sABC, sAbcCorp, sNYSE, sStock, sDate1, <<>>, sActive>>
csvAbcNasdaq == <<sABC, sXyzHoldings, sNASDAQ, sETF, sDate2, sDate3, sDelisted>>
csvXyz == <<sXYZ, sXyzHoldings, sNYSE, sStock, sBadDate, <<>>, <<>> >>
csvNoSymbol == << <<>>, sAbcCorp, sNYSE, sStock, sDate1, <<>>, sActive>>
csvLongSymbol == <<sLongSymbol, sAbcCorp, sNYSE, sStock, sDate1, <<>>, sActive>>
csvBlankLine == <<>>

CsvRowUniverse == {csvAbcNyse, csvAbcNasdaq, csvXyz, csvNoSymbol, csvLongSymbol, csvBlankLine}

\* A ticker row an earlier load left in the table.
oldAbcTicker ==
    [symbol |-> sABC, name |-> sOldName, exchange |-> sNYSE, asset_type |-> sStock,
     ipo_date |-> None, delisting_date |-> None, status |-> sActive]

\* load_tickers_from_csv is entered on a connection with nothing pending, the
\* ticker table empty or as an earlier load left it, and a CSV file of a
\* header line and up to MaxCsvRows rows.
InitLoad ==
    /\ \E n \in 0..MaxCsvRows : \E rows \in [1..n -> CsvRowUniverse] :
          csv_rows = <<csvHeader>> \o rows
    /\ li = 1
    /\ \E table \in {{}, {oldAbcTicker}} : ticker = table /\ committed = table
    /\ txn = "open"
    /\ inserted_count = 0
    /\ skipped_count = 0
    /\ lpc = "load"
    /\ files = <<>>
    /\ fi = 1
    /\ ri = 0
    /\ merged = <<>>
    /\ conflicts = <<>>
    /\ pc = "idle"
    /\ outputs = {}

SpecLoad == InitLoad /\ [][NextLoad]_vars

\* The rows of the CSV file from which the loader reads the symbol s.
RowsOfSymbol(s) ==
    {k \in DOMAIN csv_rows : Len(csv_rows[k]) >= 4 /\ CsvField(csv_rows[k], 1) = s}

\* C26: after load_tickers_from_csv has processed the rows of the CSV file,
\* the ticker table holds at most one row per symbol, and for every symbol
\* occurring in several rows of the file the stored name, exchange, asset
\* type, dates and status are those of the last such row (stated for the
\* symbols whose last row the table's columns can hold).
C26_UpsertKeyedBySymbol ==
    lpc = "loaded" =>
        /\ \A r, t \in committed : r.symbol = t.symbol => r = t
        /\ \A k \in DOMAIN csv_rows :
              (/\ Len(csv_rows[k]) >= 4
               /\ ~NoSymbol(csv_rows[k])
               /\ Cardinality(RowsOfSymbol(CsvField(csv_rows[k], 1))) > 1
               /\ \A j \in RowsOfSymbol(CsvField(csv_rows[k], 1)) : j <= k
               /\ FitsTable(TickerValues(csv_rows[k])))
              => TickerValues(csv_rows[k]) \in committed

====
